---- MODULE Spec2Model ----
(***************************************************************************)
(* Account authentication and session lifecycle of AuthService             *)
(* (src/src/auth/auth.service.ts) over the Prisma user table and the       *)
(* Redis one-time-code store (RedisService, src/src/mail/mail.service.ts). *)
(*                                                                         *)
(* Every action is the code of one handler between two awaits on a store:  *)
(* the store operation takes effect and the handler runs on to the next    *)
(* store call (or to its return / throw).  Node runs the code between two  *)
(* awaits without interruption, so these are the interleaving points.      *)
(***************************************************************************)
EXTENDS Integers, FiniteSets, Sequences, TLC

\* ---------------------------------------------------------------- bounds
MaxCalls == 4
MaxTime == 1
MaxCodeTime == 2

\* ------------------------------------------------------- input universes
Procs == {"r1", "r2"}
Emails == {"a@x.com"}
\* dto.firstName, dto.lastName
FirstNames == {"Ann"}
LastNames == {"Lee"}
\* an account nobody acts on in this model; it is there to be left alone
Bystander == "b@x.com"
\* a password as bcrypt sees it: its first 72 bytes and whatever follows them
Passwords == {[first72 |-> "secret1", rest |-> ""],
              [first72 |-> "secret2", rest |-> ""],
              [first72 |-> "secret2", rest |-> "x"]}
NoPassword == [first72 |-> "", rest |-> ""]
Salts == {"salt1"}
\* results of generateOtp(): six-digit strings, the two ends of its range
Codes == {"100000", "999999"}
\* what a client may send as dto.otp
Otps == Codes
\* Number(process.env.OTP_EXPIRY_SECONDS): 0 stands for NaN / 0 / unset
TtlChoices == {0, 1}
AccessTtl == 1
RefreshTtl == 2

Nil == "nil"
NoExpiry == -1
NullDate == -1

\* ----------------------------------------------------------- result values
Return(msg) == [kind |-> "return", type |-> "message", message |-> msg, data |-> {}]
Throw(type, msg) == [kind |-> "throw", type |-> type, message |-> msg, data |-> {}]
BadRequestException(msg) == Throw("BadRequestException", msg)
UnauthorizedException(msg) == Throw("UnauthorizedException", msg)
\* prisma.user.create on a taken unique column: PrismaClientKnownRequestError P2002
UniqueConstraintError == Throw("PrismaClientKnownRequestError", "P2002")
\* what prisma or ioredis throws when the store cannot be reached: not an HttpException
InfrastructureFailure == [kind |-> "throw", type |-> "Error", message |-> "store unreachable",
                          data |-> {}]
NoResult == [kind |-> "none", type |-> "", message |-> "", data |-> {}]

RegisteredMessage == "User registered. Please check email for OTP."
UserExistsMessage == "User already exists"
InvalidOtpMessage == "Invalid or expired OTP"
VerifiedMessage == "Email verified successfully"
ForgotMessage == "If email exists, OTP sent"
ForgotNoUserMessageLeaky == "User not found"
ResetMessage == "Password reset successfully"

\* the failures of the specification's taxonomy, as the code raises them
Conflict == BadRequestException(UserExistsMessage)
InvalidOrExpiredCode == BadRequestException(InvalidOtpMessage)
IsUnauthenticated(r) == r.kind = "throw" /\ r.type = "UnauthorizedException"

\* ------------------------------------------------------------ pure helpers
\* bcrypt.hash(password, salt) and bcrypt.compare(pass, hash); bcrypt hashes the
\* first 72 bytes of its input and ignores the rest
BcryptHash(pw, salt) == [salt |-> salt, digest |-> pw.first72]
BcryptCompare(pass, hash) == BcryptHash(pass, hash.salt) = hash
NoHash == [salt |-> "", digest |-> ""]

\* `verify_email:${email}`
VerifyKey(email) == <<"verify_email", email>>

\* one key prefix for both purposes
ResetKeyShared(email) == <<"verify_email", email>>

\* `reset_password:${email}`
ResetKey(email) == <<"reset_password", email>>
Keys == {VerifyKey(e) : e \in Emails \cup {Bystander}}
        \cup {ResetKey(e) : e \in Emails \cup {Bystander}}

NoEntry == [val |-> Nil, exp |-> NoExpiry, ser |-> 0]
NoCall == [op |-> "none", email |-> "", password |-> NoPassword, otp |-> "", token |-> {}]
NoUserView == [id |-> 0, email |-> "", firstName |-> "", lastName |-> "", role |-> "",
               isVerified |-> FALSE, verifiedAt |-> NullDate]
NoEarlier == [val |-> Nil, raced |-> FALSE]
NoLast == [call |-> NoCall, res |-> NoResult, storeFailed |-> FALSE]

VARIABLES
    users,      \* rows of the user table
    nextId,     \* next id the table assigns
    redis,      \* key -> stored entry (value, expiry instant) or NoEntry
    now,        \* wall clock, seconds
    ttlCfg,     \* Number(process.env.OTP_EXPIRY_SECONDS)
    pc,         \* per request slot: the store call the handler awaits
    call,       \* per request slot: the operation in flight and its dto
    locUser,    \* per request slot: req.user carried from validateUser to login
    locSer,     \* per request slot: issuance number of the key's code when the call
                \* arrived (forgotPassword) or of the code it read (history)
    locOld,     \* per request slot: the hash its resetPassword update replaced (history)
    last,       \* the call completed by the step just taken and its reply, if any
    tokens,     \* every token signed so far
    calls,      \* number of calls started
    issued,     \* key -> the most recently generated code (history)
    consumed,   \* key -> the latest code was deleted by a successful call (history)
    regStat,    \* email -> outcomes of completed register calls (history)
    wins,       \* issuance number -> successful resetPassword calls on it (history)
    acks,       \* (account existed, result) of completed forgotPassword calls (history)
    mail,       \* key -> state of the latest send of that key's code: none, pending, sent, failed
    earlier,    \* key -> the code the latest redis.set of the key replaced and, for
                \* reset codes, whether that code was written after the replacing
                \* forgotPassword call had arrived (history)
    accepted,   \* token -> how many refreshToken calls have accepted it (history)
    preReset    \* the tokens signed before a resetPassword of their email returned (history)

vars == <<users, nextId, redis, now, ttlCfg, pc, call, locUser, locSer, locOld, last,
          tokens, calls, issued, consumed, regStat, wins, acks, mail, earlier, accepted, preReset>>

table == <<users, nextId>>
codeStore == <<redis, issued, consumed, earlier>>
env == <<now, ttlCfg>>
locals == <<locUser, locSer, locOld>>
history == <<regStat, wins, acks>>
jwts == <<tokens, accepted, preReset>>

\* ------------------------------------------------------------ store model
\* prisma.user.findUnique({ where: { email } })
FindByEmail(email) == {u \in users : u.email = email}
\* prisma.user.findUnique({ where: { id } })
FindById(id) == {u \in users : u.id = id}
\* the unique index on User.email that findUnique/update({where:{email}}) rely on
EmailTaken(email) == FindByEmail(email) # {}

\* ioredis expires a key once its time to live has fully elapsed
\* a server that never expires a key
ExpiredNever(entry) == FALSE

Expired(entry) == entry.exp # NoExpiry /\ now >= entry.exp
\* RedisService.get
RedisGet(key) == IF redis[key] = NoEntry \/ Expired(redis[key]) THEN Nil ELSE redis[key].val
\* a set that passes every ttl on: EX with a ttl of 0 seconds, the key gone at once
RedisSetEntryAlwaysEx(value, ttl, ser) ==
    [val |-> value, exp |-> now + ttl, ser |-> ser]

\* RedisService.set: `if (ttl) SET key value EX ttl else SET key value`
RedisSetEntry(value, ttl, ser) ==
    [val |-> value, exp |-> IF ttl # 0 THEN now + ttl ELSE NoExpiry, ser |-> ser]

\* const { password, ...result } = user
SansPassword(u) == [id |-> u.id, email |-> u.email, firstName |-> u.firstName,
                    lastName |-> u.lastName, role |-> u.role,
                    isVerified |-> u.isVerified, verifiedAt |-> u.verifiedAt]

Init ==
    /\ users = {}
    /\ nextId = 1
    /\ redis = [k \in Keys |-> NoEntry]
    /\ now = 0
    /\ ttlCfg \in TtlChoices
    /\ pc = [p \in Procs |-> "ready"]
    /\ call = [p \in Procs |-> NoCall]
    /\ locUser = [p \in Procs |-> NoUserView]
    /\ locSer = [p \in Procs |-> 0]
    /\ locOld = [p \in Procs |-> NoHash]
    /\ last = NoLast
    /\ tokens = {}
    /\ accepted = << >>
    /\ preReset = {}
    /\ calls = 0
    /\ issued = [k \in Keys |-> NoEntry]
    /\ consumed = [k \in Keys |-> FALSE]
    /\ regStat = [e \in Emails |-> [ok |-> 0, conflict |-> 0, other |-> 0]]
    /\ wins = [s \in 1..MaxCalls |-> 0]
    /\ acks = {}
    /\ mail = [k \in Keys |-> "none"]
    /\ earlier = [k \in Keys |-> NoEarlier]

\* the bystander's row: registered with id 1 and verified before time 0
BystanderRow ==
    [id |-> 1, email |-> Bystander,
     firstName |-> CHOOSE n \in FirstNames : TRUE, lastName |-> CHOOSE n \in LastNames : TRUE,
     password |-> BcryptHash(CHOOSE pw \in Passwords : TRUE, CHOOSE salt \in Salts : TRUE),
     role |-> "USER", isVerified |-> TRUE, verifiedAt |-> 0]

\* the service some time into its life: the bystander has registered, verified
\* and just asked for a password-reset code, which is stored
InitBystander ==
    LET pending == RedisSetEntry(CHOOSE c \in Codes : TRUE, ttlCfg, 0) IN
    /\ users = {BystanderRow}
    /\ nextId = 2
    /\ now = 0
    /\ ttlCfg \in TtlChoices
    /\ redis = [k \in Keys |-> IF k = ResetKey(Bystander) THEN pending ELSE NoEntry]
    /\ issued = [k \in Keys |-> IF k = ResetKey(Bystander) THEN pending ELSE NoEntry]
    /\ mail = [k \in Keys |-> IF k \in {VerifyKey(Bystander), ResetKey(Bystander)}
                                 THEN "sent" ELSE "none"]
    /\ pc = [p \in Procs |-> "ready"]
    /\ call = [p \in Procs |-> NoCall]
    /\ locUser = [p \in Procs |-> NoUserView]
    /\ locSer = [p \in Procs |-> 0]
    /\ locOld = [p \in Procs |-> NoHash]
    /\ last = NoLast
    /\ tokens = {}
    /\ accepted = << >>
    /\ preReset = {}
    /\ calls = 0
    /\ consumed = [k \in Keys |-> k = VerifyKey(Bystander)]
    /\ regStat = [e \in Emails |-> [ok |-> 0, conflict |-> 0, other |-> 0]]
    /\ wins = [s \in 1..MaxCalls |-> 0]
    /\ acks = {}
    /\ earlier = [k \in Keys |-> NoEarlier]

\* ------------------------------------------------------- request plumbing
\* request slots have no identity: a new request takes the first free one
FirstFree == CHOOSE p \in Procs : pc[p] = "ready" /\ (p = "r1" \/ pc["r1"] # "ready")
CanStart(p) == pc[p] = "ready" /\ calls < MaxCalls /\ p = FirstFree

\* a request arrives in slot p, reaches its first store call and goes on to await label
Begin(p, c, label) ==
    /\ CanStart(p)
    /\ calls' = calls + 1
    /\ pc' = [pc EXCEPT ![p] = label]
    /\ call' = [call EXCEPT ![p] = c]
    /\ last' = NoLast

\* what is kept of a call that ends at its first check: login has looked at
\* the password by then, the other routes have not
Seen(c) == IF c.op = "login" THEN c ELSE [c EXCEPT !.password = NoPassword]

\* a request arrives in slot p and its first store call already decides it
BeginFinish(p, c, r) ==
    /\ CanStart(p)
    /\ calls' = calls + 1
    /\ last' = [call |-> Seen(c), res |-> r, storeFailed |-> FALSE]
    /\ UNCHANGED <<pc, call, locals>>

\* the handler in slot p awaits its next store call
Await(p, label) ==
    /\ pc' = [pc EXCEPT ![p] = label]
    /\ last' = NoLast
    /\ UNCHANGED <<call, calls>>

\* the handler in slot p returns or throws r; its locals die with it
Finish(p, r) ==
    /\ pc' = [pc EXCEPT ![p] = "ready"]
    /\ call' = [call EXCEPT ![p] = NoCall]
    /\ locUser' = [locUser EXCEPT ![p] = NoUserView]
    /\ locSer' = [locSer EXCEPT ![p] = 0]
    /\ locOld' = [locOld EXCEPT ![p] = NoHash]
    /\ last' = [call |-> call[p], res |-> r, storeFailed |-> FALSE]
    /\ UNCHANGED calls

Bump(e, field) == regStat' = [regStat EXCEPT ![e][field] = @ + 1]

MaxSer == CHOOSE n \in 0..MaxCalls : (\A k \in Keys : issued[k].ser <= n)
                                     /\ (n = 0 \/ \E k \in Keys : issued[k].ser = n)

\* a set that leaves a stored code in place (SET ... NX)
StoreOtpKeepsFirst(key, otp, seen) ==
    LET entry == RedisSetEntry(otp, ttlCfg, MaxSer + 1) IN
    /\ redis' = [redis EXCEPT ![key] = IF RedisGet(key) = Nil THEN entry ELSE @]
    /\ issued' = [issued EXCEPT ![key] = entry]
    /\ consumed' = [consumed EXCEPT ![key] = FALSE]
    /\ earlier' = [earlier EXCEPT ![key] = [val |-> issued[key].val,
                                            raced |-> issued[key].ser > seen]]

\* otp = generateOtp(); await redis.set(key, otp, Number(process.env.OTP_EXPIRY_SECONDS));
\* seen is the serial of the key's code when the storing call arrived (forgotPassword)
StoreOtp(key, otp, seen) ==
    LET entry == RedisSetEntry(otp, ttlCfg, MaxSer + 1) IN
    /\ redis' = [redis EXCEPT ![key] = entry]
    /\ issued' = [issued EXCEPT ![key] = entry]
    /\ consumed' = [consumed EXCEPT ![key] = FALSE]
    /\ earlier' = [earlier EXCEPT ![key] = [val |-> issued[key].val,
                                            raced |-> issued[key].ser > seen]]

\* this.mail.sendVerificationOtp / sendPasswordResetOtp(...).catch(...): dispatched, not awaited
SendMail(key) == mail' = [mail EXCEPT ![key] = "pending"]

\* the delete left out
RedisDelSkipped(key) == UNCHANGED <<redis, issued, earlier>>

\* await redis.del(key)
RedisDel(key) ==
    /\ redis' = [redis EXCEPT ![key] = NoEntry]
    /\ UNCHANGED <<issued, earlier>>

\* the password update also clearing the verification flag
UpdatePasswordUnverifies(email, hash) ==
    {IF u.email = email THEN [u EXCEPT !.password = hash, !.isVerified = FALSE] ELSE u
        : u \in users}
\* the password update writing nothing
UpdatePasswordDropped(email, hash) == users

\* an update whose where clause is lost: every row gets the hash
UpdatePasswordAllRows(email, hash) == {[u EXCEPT !.password = hash] : u \in users}

\* prisma.user.update({ where: { email }, data }): the rows after the update
UpdateVerified(email) ==
    {IF u.email = email THEN [u EXCEPT !.isVerified = TRUE, !.verifiedAt = now] ELSE u
        : u \in users}
UpdatePassword(email, hash) ==
    {IF u.email = email THEN [u EXCEPT !.password = hash] ELSE u : u \in users}
RecordNotFoundError == Throw("PrismaClientKnownRequestError", "P2025")

\* ------------------------------------------------------------- register
\* the columns prisma.user.create does not name take the defaults of the User model
NewUserDefaults == [isVerified |-> FALSE, verifiedAt |-> NullDate]

\* register without the findUnique guard
RegisterFindNoCheck(p) ==
    \E e \in Emails, pw \in Passwords :
        LET c == [NoCall EXCEPT !.op = "register", !.email = e, !.password = pw] IN
        /\ Begin(p, c, "reg_create")
        /\ UNCHANGED <<locals, regStat, table, codeStore, env, jwts, mail, wins, acks>>

\* register that, for a known email whose account is unverified, stores a new code
RegisterFindResends(p) ==
    \E e \in Emails, pw \in Passwords :
        LET c == [NoCall EXCEPT !.op = "register", !.email = e, !.password = pw] IN
        /\ IF \E u \in FindByEmail(e) : u.isVerified
              THEN BeginFinish(p, c, Conflict) /\ Bump(e, "conflict")
              ELSE /\ Begin(p, c, IF FindByEmail(e) # {} THEN "reg_set" ELSE "reg_create")
                   /\ UNCHANGED <<locals, regStat>>
        /\ UNCHANGED <<table, codeStore, env, jwts, mail, wins, acks>>

\* register, lines 35-40: findUnique by email, reject a known email
RegisterFind(p) ==
    \E e \in Emails, pw \in Passwords :
        LET c == [NoCall EXCEPT !.op = "register", !.email = e, !.password = pw] IN
        /\ IF FindByEmail(e) # {}
              THEN BeginFinish(p, c, Conflict) /\ Bump(e, "conflict")
              ELSE Begin(p, c, "reg_create") /\ UNCHANGED <<locals, regStat>>
        /\ UNCHANGED <<table, codeStore, env, jwts, mail, wins, acks>>

\* create on a table whose email column accepts duplicates
RegisterCreateNoUnique(p) ==
    /\ pc[p] = "reg_create"
    /\ \E salt \in Salts, fn \in FirstNames, ln \in LastNames :
        /\ users' = users \cup {[id |-> nextId, email |-> call[p].email,
                                  password |-> BcryptHash(call[p].password, salt),
                                  firstName |-> fn, lastName |-> ln,
                                  role |-> "USER", isVerified |-> NewUserDefaults.isVerified,
                                  verifiedAt |-> NewUserDefaults.verifiedAt]}
        /\ nextId' = nextId + 1
        /\ Await(p, "reg_set")
    /\ UNCHANGED <<locals, regStat, codeStore, env, jwts, mail, wins, acks>>

\* register dispatching the mail right after the create, before the code is stored
RegisterCreateMailsFirst(p) ==
    /\ pc[p] = "reg_create"
    /\ \E salt \in Salts, fn \in FirstNames, ln \in LastNames :
        LET e == call[p].email
            row == [id |-> nextId, email |-> e,
                    password |-> BcryptHash(call[p].password, salt),
                    firstName |-> fn, lastName |-> ln,
                    role |-> "USER", isVerified |-> NewUserDefaults.isVerified,
                    verifiedAt |-> NewUserDefaults.verifiedAt]
        IN IF EmailTaken(e)
              THEN /\ Finish(p, UniqueConstraintError)
                   /\ Bump(e, "other")
                   /\ UNCHANGED <<table, mail>>
              ELSE /\ users' = users \cup {row}
                   /\ nextId' = nextId + 1
                   /\ Await(p, "reg_set")
                   /\ mail' = [mail EXCEPT ![VerifyKey(e)] = "pending"]
                   /\ UNCHANGED <<locals, regStat>>
    /\ UNCHANGED <<codeStore, env, jwts, wins, acks>>

\* register, lines 42-53: hash the password, prisma.user.create
RegisterCreate(p) ==
    /\ pc[p] = "reg_create"
    /\ \E salt \in Salts, fn \in FirstNames, ln \in LastNames :
        LET e == call[p].email
            row == [id |-> nextId, email |-> e,
                    password |-> BcryptHash(call[p].password, salt),
                    firstName |-> fn, lastName |-> ln,
                    role |-> "USER", isVerified |-> NewUserDefaults.isVerified,
                    verifiedAt |-> NewUserDefaults.verifiedAt]
        IN IF EmailTaken(e)
              THEN /\ Finish(p, UniqueConstraintError)
                   /\ Bump(e, "other")
                   /\ UNCHANGED table
              ELSE /\ users' = users \cup {row}
                   /\ nextId' = nextId + 1
                   /\ Await(p, "reg_set")
                   /\ UNCHANGED <<locals, regStat>>
    /\ UNCHANGED <<codeStore, env, jwts, mail, wins, acks>>

\* a register that signs the new account in
RegisterSetOtpSignsIn(p) ==
    /\ pc[p] = "reg_set"
    /\ \E otp \in Codes : StoreOtp(VerifyKey(call[p].email), otp,
                                  issued[VerifyKey(call[p].email)].ser)
    /\ SendMail(VerifyKey(call[p].email))
    /\ Finish(p, Return(RegisteredMessage))
    /\ Bump(call[p].email, "ok")
    /\ tokens' = tokens \cup {[sub |-> u.id, email |-> u.email, role |-> u.role,
                                isVerified |-> u.isVerified, iat |-> now,
                                exp |-> now + AccessTtl, sig |-> "valid"] :
                                  u \in FindByEmail(call[p].email)}
    /\ UNCHANGED <<table, env, accepted, preReset, wins, acks>>

\* register, lines 55-70: store the verification code, dispatch the mail, return
RegisterSetOtp(p) ==
    /\ pc[p] = "reg_set"
    /\ \E otp \in Codes : StoreOtp(VerifyKey(call[p].email), otp,
                                  issued[VerifyKey(call[p].email)].ser)
    /\ SendMail(VerifyKey(call[p].email))
    /\ Finish(p, Return(RegisteredMessage))
    /\ Bump(call[p].email, "ok")
    /\ UNCHANGED <<table, env, jwts, wins, acks>>

\* ---------------------------------------------------------- verifyEmail
\* a check that only asks whether some code is stored
OtpRejectedOnlyIfMissing(storedOtp, otp) == storedOtp = Nil

\* verifyEmail, line 115, resetPassword, line 154: !storedOtp || storedOtp !== dto.otp
OtpRejected(storedOtp, otp) == storedOtp = Nil \/ storedOtp # otp

\* verifyEmail, lines 114-117: read the stored code and compare
VerifyEmailGet(p) ==
    \E e \in Emails, otp \in Otps :
        LET storedOtp == RedisGet(VerifyKey(e))
            c == [NoCall EXCEPT !.op = "verifyEmail", !.email = e, !.otp = otp]
        IN
        /\ IF OtpRejected(storedOtp, otp)
              THEN BeginFinish(p, c, InvalidOrExpiredCode)
              ELSE /\ Begin(p, c, "ver_update")
                   /\ locSer' = [locSer EXCEPT ![p] = redis[VerifyKey(e)].ser]
                   /\ UNCHANGED <<locUser, locOld>>
        /\ UNCHANGED <<table, codeStore, env, jwts, mail, history>>

\* verifyEmail, lines 119-122: mark the account verified
VerifyEmailUpdate(p) ==
    /\ pc[p] = "ver_update"
    /\ IF FindByEmail(call[p].email) = {}
          THEN Finish(p, RecordNotFoundError) /\ UNCHANGED users
          ELSE /\ users' = UpdateVerified(call[p].email)
               /\ Await(p, "ver_del")
               /\ UNCHANGED locals
    /\ UNCHANGED <<nextId, codeStore, env, jwts, mail, history>>

\* verifyEmail, lines 124-125: delete the code, return
VerifyEmailDel(p) ==
    /\ pc[p] = "ver_del"
    /\ RedisDel(VerifyKey(call[p].email))
    /\ Finish(p, Return(VerifiedMessage))
    /\ consumed' = [consumed EXCEPT ![VerifyKey(call[p].email)] = TRUE]
    /\ UNCHANGED <<table, env, jwts, mail, history>>

\* ------------------------------------------------------- forgotPassword
\* a reply that tells the caller the account is missing
ForgotNoUserResultLeaky == Return(ForgotNoUserMessageLeaky)

\* forgotPassword, line 132: the reply when no account has the email
ForgotNoUserResult == Return(ForgotMessage)

\* forgotPassword without the `if (!user) return`
ForgotPasswordFindNoGuard(p) ==
    \E e \in Emails :
        LET c == [NoCall EXCEPT !.op = "forgotPassword", !.email = e] IN
        /\ Begin(p, c, "fp_set")
        /\ locSer' = [locSer EXCEPT ![p] = issued[ResetKey(e)].ser]
        /\ UNCHANGED <<locUser, locOld, acks>>
        /\ UNCHANGED <<table, codeStore, env, jwts, mail, regStat, wins>>

\* forgotPassword, lines 129-132
ForgotPasswordFind(p) ==
    \E e \in Emails :
        LET c == [NoCall EXCEPT !.op = "forgotPassword", !.email = e] IN
        /\ IF FindByEmail(e) = {}
              THEN /\ BeginFinish(p, c, ForgotNoUserResult)
                   /\ acks' = acks \cup {[existed |-> FALSE, res |-> ForgotNoUserResult]}
              ELSE /\ Begin(p, c, "fp_set")
                   /\ locSer' = [locSer EXCEPT ![p] = issued[ResetKey(e)].ser]
                   /\ UNCHANGED <<locUser, locOld, acks>>
        /\ UNCHANGED <<table, codeStore, env, jwts, mail, regStat, wins>>

\* forgotPassword, lines 134-149: store the reset code, dispatch the mail, return
ForgotPasswordSetOtp(p) ==
    /\ pc[p] = "fp_set"
    /\ \E otp \in Codes : StoreOtp(ResetKey(call[p].email), otp, locSer[p])
    /\ SendMail(ResetKey(call[p].email))
    /\ Finish(p, Return(ForgotMessage))
    /\ acks' = acks \cup {[existed |-> TRUE, res |-> Return(ForgotMessage)]}
    /\ UNCHANGED <<table, env, jwts, regStat, wins>>

\* -------------------------------------------------------- resetPassword
\* resetPassword, lines 153-156
ResetPasswordGet(p) ==
    \E e \in Emails, otp \in Otps, pw \in Passwords :
        LET storedOtp == RedisGet(ResetKey(e))
            c == [NoCall EXCEPT !.op = "resetPassword", !.email = e, !.otp = otp,
                                !.password = pw]
        IN
        /\ IF OtpRejected(storedOtp, otp)
              THEN BeginFinish(p, c, InvalidOrExpiredCode)
              ELSE /\ Begin(p, c, "rp_update")
                   /\ locSer' = [locSer EXCEPT ![p] = redis[ResetKey(e)].ser]
                   /\ UNCHANGED <<locUser, locOld>>
        /\ UNCHANGED <<table, codeStore, env, jwts, mail, history>>

\* resetPassword, lines 158-164: hash the new password, overwrite the stored hash
ResetPasswordUpdate(p) ==
    /\ pc[p] = "rp_update"
    /\ \E salt \in Salts :
        IF FindByEmail(call[p].email) = {}
           THEN Finish(p, RecordNotFoundError) /\ UNCHANGED users
           ELSE /\ users' = UpdatePassword(call[p].email,
                                           BcryptHash(call[p].password, salt))
                /\ Await(p, "rp_del")
                /\ \E u \in FindByEmail(call[p].email) :
                       locOld' = [locOld EXCEPT ![p] = u.password]
                /\ UNCHANGED <<locUser, locSer>>
    /\ UNCHANGED <<nextId, codeStore, env, jwts, mail, history>>

\* resetPassword, lines 166-167: delete the code, return
ResetPasswordDel(p) ==
    /\ pc[p] = "rp_del"
    /\ RedisDel(ResetKey(call[p].email))
    /\ Finish(p, Return(ResetMessage))
    /\ consumed' = [consumed EXCEPT ![ResetKey(call[p].email)] = TRUE]
    /\ wins' = [wins EXCEPT ![locSer[p]] = @ + 1]
    /\ preReset' = preReset \cup {t \in tokens : t.email = call[p].email}
    /\ UNCHANGED <<table, env, tokens, accepted, mail, regStat, acks>>

\* ------------------------------------------------------ login / tokens
\* jwtService.sign(payload, { expiresIn }): the claims plus iat and exp
JwtSign(payload, ttl) ==
    [sub |-> payload.sub, email |-> payload.email, role |-> payload.role,
     isVerified |-> payload.isVerified, iat |-> now, exp |-> now + ttl,
     sig |-> "valid"]
\* verify with ignoreExpiration
JwtVerifyIgnoresExpiry(t) == t.sig = "valid"

\* a verify that also wants the refresh lifetime, as a typ claim would give
JwtVerifyRefreshOnly(t) == t.sig = "valid" /\ now < t.exp /\ t.exp - t.iat = RefreshTtl

\* jwtService.verify(token, { secret }): signature and expiry
JwtVerify(t) == t.sig = "valid" /\ now < t.exp
\* a token that was not signed with JWT_SECRET
ForgedTokens == {[sub |-> 1, email |-> "a@x.com", role |-> "USER", isVerified |-> TRUE,
                  iat |-> 0, exp |-> MaxTime + RefreshTtl + 1, sig |-> "forged"]}

\* login without the verification gate
LoginRefusesNever(user) == FALSE

\* login, lines 84-86
LoginRefuses(user) == ~user.isVerified

\* login answering with the account it was handed, less the two verification columns
LoginResultSpreadsUser(user) ==
    LET payload == [sub |-> user.id, email |-> user.email, role |-> user.role,
                    isVerified |-> user.isVerified]
    IN [kind |-> "return", type |-> "tokens", message |-> "",
        data |-> {[access_token |-> JwtSign(payload, AccessTtl),
                   refresh_token |-> JwtSign(payload, RefreshTtl),
                   user |-> [f \in DOMAIN user \ {"isVerified", "verifiedAt"} |-> user[f]]]}]

\* login, lines 88-110: the token pair and the public projection
LoginResult(user) ==
    LET payload == [sub |-> user.id, email |-> user.email, role |-> user.role,
                    isVerified |-> user.isVerified]
    IN [kind |-> "return", type |-> "tokens", message |-> "",
        data |-> {[access_token |-> JwtSign(payload, AccessTtl),
                   refresh_token |-> JwtSign(payload, RefreshTtl),
                   user |-> [id |-> user.id, email |-> user.email, role |-> user.role,
                             firstName |-> user.firstName, lastName |-> user.lastName]]}]

TokensOf(r) == UNION {{d.access_token, d.refresh_token} : d \in r.data}

\* LocalStrategy.validate: validateUser returned null
LocalStrategyRejects == UnauthorizedException("Unauthorized")

\* validateUser that names the reason when the email is unknown
validateUserTellsApart(email, pass) ==
    LET found == {u \in FindByEmail(email) : BcryptCompare(pass, u.password)}
    IN IF FindByEmail(email) = {}
          THEN [user |-> NoUserView, error |-> "User not found"]
          ELSE IF found = {} THEN [user |-> NoUserView, error |-> Nil]
          ELSE [user |-> SansPassword(CHOOSE u \in found : TRUE), error |-> Nil]

\* validateUser, lines 73-81: the account without its password field when the
\* email is known and the password matches, null (user = NoUserView) otherwise
validateUser(email, pass) ==
    LET found == {u \in FindByEmail(email) : BcryptCompare(pass, u.password)}
    IN IF found = {} THEN [user |-> NoUserView, error |-> Nil]
       ELSE [user |-> SansPassword(CHOOSE u \in found : TRUE), error |-> Nil]

\* POST /auth/login, LocalAuthGuard: validateUser through LocalStrategy.validate;
\* an exception of validateUser would pass through the strategy unchanged
ValidateUser(p) ==
    \E e \in Emails, pw \in Passwords :
        LET r == validateUser(e, pw)
            c == [NoCall EXCEPT !.op = "login", !.email = e, !.password = pw]
        IN
        /\ IF r.error # Nil
              THEN BeginFinish(p, c, UnauthorizedException(r.error))
              ELSE IF r.user = NoUserView
              THEN BeginFinish(p, c, LocalStrategyRejects)
              ELSE /\ Begin(p, c, "login")
                   /\ locUser' = [locUser EXCEPT ![p] = r.user]
                   /\ UNCHANGED <<locSer, locOld>>
        /\ UNCHANGED <<table, codeStore, env, jwts, mail, history>>

\* login(req.user), lines 83-111
Login(p) ==
    /\ pc[p] = "login"
    /\ IF LoginRefuses(locUser[p])
          THEN Finish(p, UnauthorizedException("Email not verified")) /\ UNCHANGED jwts
          ELSE /\ Finish(p, LoginResult(locUser[p]))
               /\ tokens' = tokens \cup TokensOf(LoginResult(locUser[p]))
               /\ accepted' = accepted
               /\ preReset' = preReset
    /\ UNCHANGED <<table, codeStore, env, history, mail>>

\* login(payload): the verified claims handed on, which have no id field
RefreshLoginArgFromToken(t, u) ==
    [id |-> 0, email |-> t.email, firstName |-> "", lastName |-> "", role |-> t.role,
     isVerified |-> t.isVerified, verifiedAt |-> NullDate]

\* one more refreshToken call has accepted t
Accept(t) == IF t \in DOMAIN accepted THEN [accepted EXCEPT ![t] = @ + 1]
             ELSE accepted @@ (t :> 1)

\* refreshToken, line 180: login(user), the row just loaded by payload.sub
RefreshLoginArg(t, u) == u

\* a refreshToken that takes each token once: a token it accepted before is refused
RefreshTokenOnce(p) ==
    \E t \in tokens \cup ForgedTokens :
        LET found == IF JwtVerify(t) /\ t \notin DOMAIN accepted THEN FindById(t.sub) ELSE {}
            ok == {u \in found : ~LoginRefuses(RefreshLoginArg(t, u))}
            c == [NoCall EXCEPT !.op = "refreshToken", !.token = {t}]
        IN
        /\ IF ok = {}
              THEN /\ BeginFinish(p, c, UnauthorizedException("Invalid refresh token"))
                   /\ UNCHANGED jwts
              ELSE \E u \in ok :
                   /\ BeginFinish(p, c, LoginResult(RefreshLoginArg(t, u)))
                   /\ tokens' = tokens \cup TokensOf(LoginResult(RefreshLoginArg(t, u)))
                   /\ accepted' = Accept(t)
                   /\ preReset' = preReset
        /\ UNCHANGED <<table, codeStore, env, history, mail>>

\* a refreshToken that refuses the tokens signed before the password was reset
RefreshTokenResetAware(p) ==
    \E t \in tokens \cup ForgedTokens :
        LET found == IF JwtVerify(t) /\ t \notin preReset THEN FindById(t.sub) ELSE {}
            ok == {u \in found : ~LoginRefuses(RefreshLoginArg(t, u))}
            c == [NoCall EXCEPT !.op = "refreshToken", !.token = {t}]
        IN
        /\ IF ok = {}
              THEN /\ BeginFinish(p, c, UnauthorizedException("Invalid refresh token"))
                   /\ UNCHANGED jwts
              ELSE \E u \in ok :
                   /\ BeginFinish(p, c, LoginResult(RefreshLoginArg(t, u)))
                   /\ tokens' = tokens \cup TokensOf(LoginResult(RefreshLoginArg(t, u)))
                   /\ accepted' = Accept(t)
                   /\ preReset' = preReset
        /\ UNCHANGED <<table, codeStore, env, history, mail>>

\* refreshToken, lines 170-184: verify, reload the account by id, login;
\* whatever is thrown inside the try becomes 'Invalid refresh token'
RefreshToken(p) ==
    \E t \in tokens \cup ForgedTokens :
        LET found == IF JwtVerify(t) THEN FindById(t.sub) ELSE {}
            ok == {u \in found : ~LoginRefuses(RefreshLoginArg(t, u))}
            c == [NoCall EXCEPT !.op = "refreshToken", !.token = {t}]
        IN
        /\ IF ok = {}
              THEN /\ BeginFinish(p, c, UnauthorizedException("Invalid refresh token"))
                   /\ UNCHANGED jwts
              ELSE \E u \in ok :
                   /\ BeginFinish(p, c, LoginResult(RefreshLoginArg(t, u)))
                   /\ tokens' = tokens \cup TokensOf(LoginResult(RefreshLoginArg(t, u)))
                   /\ accepted' = Accept(t)
                   /\ preReset' = preReset
        /\ UNCHANGED <<table, codeStore, env, history, mail>>

\* one second passes
Tick ==
    /\ now < MaxTime
    /\ now' = now + 1
    /\ last' = NoLast
    /\ UNCHANGED <<table, codeStore, ttlCfg, pc, call, locals, jwts, mail, calls, history>>

Next ==
    \/ \E p \in Procs : RegisterFind(p)
    \/ \E p \in Procs : RegisterCreate(p)
    \/ \E p \in Procs : RegisterSetOtp(p)
    \/ \E p \in Procs : VerifyEmailGet(p)
    \/ \E p \in Procs : VerifyEmailUpdate(p)
    \/ \E p \in Procs : VerifyEmailDel(p)
    \/ \E p \in Procs : ForgotPasswordFind(p)
    \/ \E p \in Procs : ForgotPasswordSetOtp(p)
    \/ \E p \in Procs : ResetPasswordGet(p)
    \/ \E p \in Procs : ResetPasswordUpdate(p)
    \/ \E p \in Procs : ResetPasswordDel(p)
    \/ \E p \in Procs : ValidateUser(p)
    \/ \E p \in Procs : Login(p)
    \/ \E p \in Procs : RefreshToken(p)
    \/ Tick

Spec == Init /\ [][Next]_vars

\* requests served one after the other: a call starts only when no other is in flight
OneAtATime == \A p, q \in Procs : (pc[p] # "ready" /\ pc[q] # "ready") => p = q
NextSeq ==
    \/ \E p \in Procs : RegisterFind(p) /\ OneAtATime'
    \/ \E p \in Procs : RegisterCreate(p)
    \/ \E p \in Procs : RegisterSetOtp(p)
    \/ \E p \in Procs : VerifyEmailGet(p) /\ OneAtATime'
    \/ \E p \in Procs : VerifyEmailUpdate(p)
    \/ \E p \in Procs : VerifyEmailDel(p)
    \/ \E p \in Procs : ForgotPasswordFind(p) /\ OneAtATime'
    \/ \E p \in Procs : ForgotPasswordSetOtp(p)
    \/ \E p \in Procs : ResetPasswordGet(p) /\ OneAtATime'
    \/ \E p \in Procs : ResetPasswordUpdate(p)
    \/ \E p \in Procs : ResetPasswordDel(p)
    \/ \E p \in Procs : ValidateUser(p) /\ OneAtATime'
    \/ \E p \in Procs : Login(p)
    \/ \E p \in Procs : RefreshToken(p)
    \/ Tick
SpecSeq == Init /\ [][NextSeq]_vars

\* every route, on a table that already holds another account
SpecBystander == InitBystander /\ [][Next]_vars

\* PrismaService.cleanDatabase: deleteMany on every model (refused in production)
CleanDatabase ==
    /\ users # {}
    /\ users' = {}
    /\ last' = NoLast
    /\ UNCHANGED <<nextId, codeStore, env, pc, call, locals, jwts, mail, calls, history>>

\* registration, verification, login and refresh, with accounts that can disappear
NextSession ==
    \/ \E p \in Procs : RegisterFind(p)
    \/ \E p \in Procs : RegisterCreate(p)
    \/ \E p \in Procs : RegisterSetOtp(p)
    \/ \E p \in Procs : VerifyEmailGet(p)
    \/ \E p \in Procs : VerifyEmailUpdate(p)
    \/ \E p \in Procs : VerifyEmailDel(p)
    \/ \E p \in Procs : ValidateUser(p)
    \/ \E p \in Procs : Login(p)
    \/ \E p \in Procs : RefreshToken(p)
    \/ CleanDatabase
    \/ Tick
SpecSession == Init /\ [][NextSession]_vars

\* a send whose rejection nobody handles: the process ends with the requests it serves
OnSendErrorUnhandled ==
    /\ pc' = [p \in Procs |-> "ready"]
    /\ call' = [p \in Procs |-> NoCall]
    /\ locUser' = [p \in Procs |-> NoUserView]
    /\ locSer' = [p \in Procs |-> 0]
    /\ locOld' = [p \in Procs |-> NoHash]
    /\ last' = [call |-> NoCall, res |-> Throw("UnhandledPromiseRejection", "sendMail"),
                storeFailed |-> FALSE]

\* register, lines 63-68, forgotPassword, lines 142-147: .catch logs the error
OnSendError ==
    /\ last' = NoLast
    /\ UNCHANGED <<pc, call, locals>>

\* MailService.sendVerificationOtp / sendPasswordResetOtp: transporter.sendMail resolved
MailDelivered ==
    \E k \in Keys :
        /\ mail[k] = "pending"
        /\ mail' = [mail EXCEPT ![k] = "sent"]
        /\ last' = NoLast
        /\ UNCHANGED <<table, codeStore, env, pc, call, locals, jwts, calls, history>>

\* transporter.sendMail rejected: the promise rejects into the caller's .catch
MailFails ==
    \E k \in Keys :
        /\ mail[k] = "pending"
        /\ mail' = [mail EXCEPT ![k] = "failed"]
        /\ OnSendError
        /\ UNCHANGED <<table, codeStore, env, jwts, calls, history>>

\* the two operations that send mail, and the fate of the mails they dispatch
NextMail ==
    \/ \E p \in Procs : RegisterFind(p)
    \/ \E p \in Procs : RegisterCreate(p)
    \/ \E p \in Procs : RegisterSetOtp(p)
    \/ \E p \in Procs : ForgotPasswordFind(p)
    \/ \E p \in Procs : ForgotPasswordSetOtp(p)
    \/ MailDelivered
    \/ MailFails
SpecMail == Init /\ [][NextMail]_vars

\* one second passes, on the longer horizon of the code routes
TickCodes ==
    /\ now < MaxCodeTime
    /\ now' = now + 1
    /\ last' = NoLast
    /\ UNCHANGED <<table, codeStore, ttlCfg, pc, call, locals, jwts, mail, calls, history>>

\* the routes that write and read one-time codes, one request at a time
NextCodes ==
    \/ \E p \in Procs : RegisterFind(p) /\ OneAtATime'
    \/ \E p \in Procs : RegisterCreate(p)
    \/ \E p \in Procs : RegisterSetOtp(p)
    \/ \E p \in Procs : VerifyEmailGet(p) /\ OneAtATime'
    \/ \E p \in Procs : VerifyEmailUpdate(p)
    \/ \E p \in Procs : VerifyEmailDel(p)
    \/ \E p \in Procs : ForgotPasswordFind(p) /\ OneAtATime'
    \/ \E p \in Procs : ForgotPasswordSetOtp(p)
    \/ \E p \in Procs : ResetPasswordGet(p) /\ OneAtATime'
    \/ \E p \in Procs : ResetPasswordUpdate(p)
    \/ \E p \in Procs : ResetPasswordDel(p)
    \/ TickCodes
SpecCodes == Init /\ [][NextCodes]_vars

\* ------------------------------------------------------- store failures
\* the calls a request can arrive with, refreshToken apart
FirstCalls ==
    {[NoCall EXCEPT !.op = "register", !.email = e, !.password = pw] :
        e \in Emails, pw \in Passwords}
    \cup {[NoCall EXCEPT !.op = "login", !.email = e, !.password = pw] :
        e \in Emails, pw \in Passwords}
    \cup {[NoCall EXCEPT !.op = "verifyEmail", !.email = e, !.otp = otp] :
        e \in Emails, otp \in Otps}
    \cup {[NoCall EXCEPT !.op = "forgotPassword", !.email = e] : e \in Emails}
    \cup {[NoCall EXCEPT !.op = "resetPassword", !.email = e, !.otp = otp, !.password = pw] :
        e \in Emails, otp \in Otps, pw \in Passwords}

\* register line 35, validateUser line 74, verifyEmail line 114, forgotPassword
\* line 129, resetPassword line 153: the first store call rejects and nothing
\* in the handler catches it
FirstStoreCallFails(p) ==
    \E c \in FirstCalls :
        /\ CanStart(p)
        /\ calls' = calls + 1
        /\ last' = [call |-> Seen(c), res |-> InfrastructureFailure, storeFailed |-> TRUE]
        /\ IF c.op = "register" THEN Bump(c.email, "other") ELSE UNCHANGED regStat
        /\ UNCHANGED <<pc, call, locals, table, codeStore, env, jwts, mail, wins, acks>>

\* a register that takes its account back when storing the code fails
StoreCallFailsRollsBack(p) ==
    /\ pc[p] \notin {"ready", "login"}
    /\ pc' = [pc EXCEPT ![p] = "ready"]
    /\ call' = [call EXCEPT ![p] = NoCall]
    /\ locUser' = [locUser EXCEPT ![p] = NoUserView]
    /\ locSer' = [locSer EXCEPT ![p] = 0]
    /\ locOld' = [locOld EXCEPT ![p] = NoHash]
    /\ last' = [call |-> call[p], res |-> InfrastructureFailure, storeFailed |-> TRUE]
    /\ IF call[p].op = "register" THEN Bump(call[p].email, "other") ELSE UNCHANGED regStat
    /\ users' = IF pc[p] = "reg_set" THEN users \ FindByEmail(call[p].email) ELSE users
    /\ UNCHANGED <<calls, nextId, codeStore, env, jwts, mail, wins, acks>>

\* a later store call of a handler in flight rejects (create line 45, set lines
\* 56 and 135, update lines 119 and 161, del lines 124 and 166); nothing
\* catches it
StoreCallFails(p) ==
    /\ pc[p] \notin {"ready", "login"}
    /\ pc' = [pc EXCEPT ![p] = "ready"]
    /\ call' = [call EXCEPT ![p] = NoCall]
    /\ locUser' = [locUser EXCEPT ![p] = NoUserView]
    /\ locSer' = [locSer EXCEPT ![p] = 0]
    /\ locOld' = [locOld EXCEPT ![p] = NoHash]
    /\ last' = [call |-> call[p], res |-> InfrastructureFailure, storeFailed |-> TRUE]
    /\ IF call[p].op = "register" THEN Bump(call[p].email, "other") ELSE UNCHANGED regStat
    /\ UNCHANGED <<calls, table, codeStore, env, jwts, mail, wins, acks>>

\* refreshToken, lines 181-183: catch (e) answers whatever was thrown in the try
RefreshCatch(e) == UnauthorizedException("Invalid refresh token")

\* refreshToken, lines 172-178: the token verifies and findUnique rejects
\* inside the try
RefreshTokenStoreFails(p) ==
    \E t \in tokens \cup ForgedTokens :
        LET c == [NoCall EXCEPT !.op = "refreshToken", !.token = {t}] IN
        /\ JwtVerify(t)
        /\ CanStart(p)
        /\ calls' = calls + 1
        /\ last' = [call |-> c, res |-> RefreshCatch(InfrastructureFailure),
                    storeFailed |-> TRUE]
        /\ UNCHANGED <<pc, call, locals, table, codeStore, env, jwts, mail, history>>

\* every route, with stores that can fail under any call
NextOutage ==
    \/ \E p \in Procs : RegisterFind(p)
    \/ \E p \in Procs : RegisterCreate(p)
    \/ \E p \in Procs : RegisterSetOtp(p)
    \/ \E p \in Procs : VerifyEmailGet(p)
    \/ \E p \in Procs : VerifyEmailUpdate(p)
    \/ \E p \in Procs : VerifyEmailDel(p)
    \/ \E p \in Procs : ForgotPasswordFind(p)
    \/ \E p \in Procs : ForgotPasswordSetOtp(p)
    \/ \E p \in Procs : ResetPasswordGet(p)
    \/ \E p \in Procs : ResetPasswordUpdate(p)
    \/ \E p \in Procs : ResetPasswordDel(p)
    \/ \E p \in Procs : ValidateUser(p)
    \/ \E p \in Procs : Login(p)
    \/ \E p \in Procs : RefreshToken(p)
    \/ \E p \in Procs : FirstStoreCallFails(p)
    \/ \E p \in Procs : StoreCallFails(p)
    \/ \E p \in Procs : RefreshTokenStoreFails(p)
    \/ Tick
SpecOutage == Init /\ [][NextOutage]_vars

\* every route, served one request at a time, with stores that can fail under any call
NextOutageSeq ==
    \/ \E p \in Procs : RegisterFind(p) /\ OneAtATime'
    \/ \E p \in Procs : RegisterCreate(p)
    \/ \E p \in Procs : RegisterSetOtp(p)
    \/ \E p \in Procs : VerifyEmailGet(p) /\ OneAtATime'
    \/ \E p \in Procs : VerifyEmailUpdate(p)
    \/ \E p \in Procs : VerifyEmailDel(p)
    \/ \E p \in Procs : ForgotPasswordFind(p) /\ OneAtATime'
    \/ \E p \in Procs : ForgotPasswordSetOtp(p)
    \/ \E p \in Procs : ResetPasswordGet(p) /\ OneAtATime'
    \/ \E p \in Procs : ResetPasswordUpdate(p)
    \/ \E p \in Procs : ResetPasswordDel(p)
    \/ \E p \in Procs : ValidateUser(p) /\ OneAtATime'
    \/ \E p \in Procs : Login(p)
    \/ \E p \in Procs : RefreshToken(p)
    \/ \E p \in Procs : FirstStoreCallFails(p)
    \/ \E p \in Procs : StoreCallFails(p)
    \/ \E p \in Procs : RefreshTokenStoreFails(p)
    \/ Tick
SpecOutageSeq == Init /\ [][NextOutageSeq]_vars

\* ------------------------------------------------- an account in service
\* the account of the email after its register and verifyEmail
VerifiedRow(pw) ==
    [id |-> 1, email |-> CHOOSE e \in Emails : TRUE,
     firstName |-> CHOOSE n \in FirstNames : TRUE, lastName |-> CHOOSE n \in LastNames : TRUE,
     password |-> BcryptHash(pw, CHOOSE salt \in Salts : TRUE),
     role |-> "USER", isVerified |-> TRUE, verifiedAt |-> 0]

\* the service after one register and one verifyEmail: the account exists and
\* is verified, its verification code was consumed, no token is signed yet
InitVerified ==
    LET e == CHOOSE x \in Emails : TRUE
        used == [val |-> CHOOSE c \in Codes : TRUE, exp |-> NoExpiry, ser |-> 1]
    IN
    /\ \E pw \in Passwords : users = {VerifiedRow(pw)}
    /\ nextId = 2
    /\ now = 0
    /\ ttlCfg = 0
    /\ redis = [k \in Keys |-> NoEntry]
    /\ issued = [k \in Keys |-> IF k = VerifyKey(e) THEN used ELSE NoEntry]
    /\ consumed = [k \in Keys |-> k = VerifyKey(e)]
    /\ earlier = [k \in Keys |-> NoEarlier]
    /\ mail = [k \in Keys |-> IF k = VerifyKey(e) THEN "pending" ELSE "none"]
    /\ pc = [p \in Procs |-> "ready"]
    /\ call = [p \in Procs |-> NoCall]
    /\ locUser = [p \in Procs |-> NoUserView]
    /\ locSer = [p \in Procs |-> 0]
    /\ locOld = [p \in Procs |-> NoHash]
    /\ last = NoLast
    /\ tokens = {}
    /\ accepted = << >>
    /\ preReset = {}
    /\ calls = 0
    /\ regStat = [x \in Emails |-> [ok |-> IF x = e THEN 1 ELSE 0, conflict |-> 0, other |-> 0]]
    /\ wins = [s \in 1..MaxCalls |-> 0]
    /\ acks = {}

\* login, refresh and password reset on an account in service that can disappear
NextTokens ==
    \/ \E p \in Procs : ValidateUser(p)
    \/ \E p \in Procs : Login(p)
    \/ \E p \in Procs : RefreshToken(p)
    \/ \E p \in Procs : ForgotPasswordFind(p)
    \/ \E p \in Procs : ForgotPasswordSetOtp(p)
    \/ \E p \in Procs : ResetPasswordGet(p)
    \/ \E p \in Procs : ResetPasswordUpdate(p)
    \/ \E p \in Procs : ResetPasswordDel(p)
    \/ CleanDatabase
    \/ Tick
SpecTokens == InitVerified /\ [][NextTokens]_vars

\* ---------------------------------------------------- codes left pending
\* the service right after one register and one forgotPassword of the email,
\* both at second 0: the account is unverified and both codes are stored,
\* with the expiry the configuration gives them
InitPending ==
    LET e == CHOOSE x \in Emails : TRUE IN
    /\ ttlCfg \in TtlChoices
    /\ now = 0
    /\ \E pw \in Passwords :
          users = {[VerifiedRow(pw) EXCEPT !.isVerified = NewUserDefaults.isVerified,
                                          !.verifiedAt = NewUserDefaults.verifiedAt]}
    /\ nextId = 2
    /\ \E v \in Codes, r \in Codes :
          /\ redis = [k \in Keys |->
                        IF k = VerifyKey(e) THEN RedisSetEntry(v, ttlCfg, 1)
                        ELSE IF k = ResetKey(e) THEN RedisSetEntry(r, ttlCfg, 2)
                        ELSE NoEntry]
          /\ issued = redis
    /\ consumed = [k \in Keys |-> FALSE]
    /\ earlier = [k \in Keys |-> NoEarlier]
    /\ mail = [k \in Keys |-> IF k \in {VerifyKey(e), ResetKey(e)} THEN "pending" ELSE "none"]
    /\ pc = [p \in Procs |-> "ready"]
    /\ call = [p \in Procs |-> NoCall]
    /\ locUser = [p \in Procs |-> NoUserView]
    /\ locSer = [p \in Procs |-> 0]
    /\ locOld = [p \in Procs |-> NoHash]
    /\ last = NoLast
    /\ tokens = {}
    /\ accepted = << >>
    /\ preReset = {}
    /\ calls = 2
    /\ regStat = [x \in Emails |-> [ok |-> IF x = e THEN 1 ELSE 0, conflict |-> 0, other |-> 0]]
    /\ wins = [s \in 1..MaxCalls |-> 0]
    /\ acks = {[existed |-> TRUE, res |-> Return(ForgotMessage)]}

\* the routes that read, consume or overwrite the pending codes while time passes
NextPending ==
    \/ \E p \in Procs : VerifyEmailGet(p)
    \/ \E p \in Procs : VerifyEmailUpdate(p)
    \/ \E p \in Procs : VerifyEmailDel(p)
    \/ \E p \in Procs : ForgotPasswordFind(p)
    \/ \E p \in Procs : ForgotPasswordSetOtp(p)
    \/ \E p \in Procs : ResetPasswordGet(p)
    \/ \E p \in Procs : ResetPasswordUpdate(p)
    \/ \E p \in Procs : ResetPasswordDel(p)
    \/ TickCodes
SpecPending == InitPending /\ [][NextPending]_vars

TypeOK ==
    /\ nextId \in 1..(MaxCalls + 1)
    /\ now \in 0..(MaxTime + MaxCodeTime)
    /\ calls \in 0..MaxCalls
    /\ \A u \in users : u.id \in 1..(MaxCalls + 1) /\ u.email \in Emails \cup {Bystander}
    /\ DOMAIN accepted \subseteq tokens \cup ForgedTokens
    /\ preReset \subseteq tokens


\* ================================================================ claims
RegisterInFlight(e) == {p \in Procs : pc[p] \in {"reg_create", "reg_set"} /\ call[p].email = e}
RegisterCompleted(e) == regStat[e].ok + regStat[e].conflict + regStat[e].other

\* the call that arrived in this step
Arrived == IF call' = call THEN last'.call
           ELSE call'[CHOOSE p \in Procs : call'[p] # call[p]]
Arrives(op) == calls' = calls + 1 /\ Arrived.op = op
\* the arriving call passed its first check and awaits its next store call
GoesOn == call' # call

\* validateUser followed by login, run to completion on the current table
LoginWouldSucceed(email, pw) ==
    \E u \in FindByEmail(email) :
        BcryptCompare(pw, u.password) /\ ~LoginRefuses(SansPassword(u))

\* C1: two register calls for one email, however their steps interleave, end
\* with exactly one success and one Conflict and no other kind of failure.
C1_RegisterRaceOneSuccessOneConflict ==
    \A e \in Emails :
        (RegisterInFlight(e) = {} /\ RegisterCompleted(e) = 2)
            => /\ regStat[e].ok = 1
               /\ regStat[e].conflict = 1
               /\ regStat[e].other = 0

\* C2: register calls for one email served one after the other: the first
\* creates the account and each later one fails with Conflict.
C2_SequentialRegister ==
    \A e \in Emails :
        (RegisterInFlight(e) = {} /\ RegisterCompleted(e) >= 1)
            => /\ regStat[e].ok = 1
               /\ regStat[e].conflict = RegisterCompleted(e) - 1
               /\ Cardinality(FindByEmail(e)) = 1
C2_Witness ==
    \E e \in Emails : regStat[e].ok = 1 /\ regStat[e].conflict = 1
                      /\ last.call.op = "register" /\ last.res = Conflict

\* C3: no two rows of the user table carry the same email.
C3_NoSharedEmail ==
    \A u, v \in users : u.email = v.email => u = v
C3_Witness ==
    \E e \in Emails : regStat[e].other = 1 /\ Cardinality(FindByEmail(e)) = 1
                      /\ last.res = UniqueConstraintError

\* C4: verifyEmail goes through exactly when the supplied code is the most
\* recently generated verification code of the email, unexpired and not yet
\* consumed; every other call, a repeat after success and a never-issued code
\* alike, throws 'Invalid or expired OTP'; a call that goes through succeeds.
C4_VerifyEmailIffFreshCode ==
    [][ /\ Arrives("verifyEmail") =>
            LET k == VerifyKey(Arrived.email) IN
            /\ GoesOn <=> /\ issued[k] # NoEntry
                          /\ Arrived.otp = issued[k].val
                          /\ ~Expired(issued[k])
                          /\ ~consumed[k]
            /\ ~GoesOn => last'.res = InvalidOrExpiredCode
        /\ \A p \in Procs :
            /\ (pc[p] = "ver_update" /\ pc'[p] # pc[p]) => pc'[p] = "ver_del"
            /\ (pc[p] = "ver_del" /\ pc'[p] # pc[p]) => last'.res = Return(VerifiedMessage)
      ]_vars
C4_Witness ==
    /\ last.call.op = "verifyEmail"
    /\ last.res = InvalidOrExpiredCode
    /\ consumed[VerifyKey(last.call.email)]
    /\ last.call.otp = issued[VerifyKey(last.call.email)].val
    /\ ~Expired(issued[VerifyKey(last.call.email)])

\* C5: a login for an account that is not verified ends Unauthenticated and
\* signs nothing, whatever the password; every token is signed for an account
\* that was already verified when the token was signed.
C5_NoLoginBeforeVerification ==
    [][ /\ (last' # last /\ last'.call.op = "login"
            /\ \A u \in FindByEmail(last'.call.email) : ~u.isVerified)
                => IsUnauthenticated(last'.res) /\ tokens' = tokens
        /\ \A p \in Procs :
            (pc[p] = "login" /\ pc'[p] = "ready" /\ ~locUser[p].isVerified)
                => IsUnauthenticated(last'.res) /\ tokens' = tokens
        /\ \A t \in tokens' \ tokens :
            \E u \in users : u.id = t.sub /\ u.isVerified /\ t.isVerified
      ]_vars
C5_Witness ==
    /\ last.call.op = "login"
    /\ last.res = UnauthorizedException("Email not verified")
    /\ \E u \in FindByEmail(last.call.email) :
        ~u.isVerified /\ BcryptCompare(last.call.password, u.password)
    /\ tokens = {}

\* C6: an account that is verified stays verified across every step.
C6_VerifiedIsMonotonic ==
    [][ \A u \in users : u.isVerified =>
            \E v \in users' : v.id = u.id /\ v.isVerified ]_vars
C6_Witness ==
    /\ last.call.op = "resetPassword"
    /\ last.res = Return(ResetMessage)
    /\ \E u \in FindByEmail(last.call.email) :
        u.isVerified /\ BcryptCompare(last.call.password, u.password)

\* C7: once an account's verifiedAt is set it is never written again, also
\* when several verifyEmail calls with the correct code overlap.
C7_VerifiedAtWrittenOnce ==
    [][ \A u \in users : u.verifiedAt # NullDate =>
            \E v \in users' : v.id = u.id /\ v.verifiedAt = u.verifiedAt ]_vars

\* C8: for each issued password-reset code at most one resetPassword call
\* succeeds, overlapping calls included.
C8_ResetCodeUsedOnce ==
    \A s \in 1..MaxCalls : wins[s] <= 1

\* C9 (as stated): when resetPassword returns successfully, a login with the
\* new password succeeds and a login with the replaced password fails.
C9_LoginAfterResetAsStated ==
    [][ \A p \in Procs :
            (pc[p] = "rp_del" /\ pc'[p] = "ready") =>
                /\ LoginWouldSucceed(call[p].email, call[p].password)'
                /\ \A old \in Passwords :
                    BcryptCompare(old, locOld[p])
                        => ~LoginWouldSucceed(call[p].email, old)'
      ]_vars

\* C9 (amended): right after resetPassword has written the new hash, a login
\* with the new password succeeds if the account is verified, and a login with
\* any password that bcrypt tells apart from the new one fails; on an
\* unverified account every login fails.
C9_LoginAfterPasswordWrite ==
    [][ \A p \in Procs :
            (pc[p] = "rp_update" /\ pc'[p] = "rp_del") =>
                \A u \in FindByEmail(call[p].email)' :
                    /\ LoginWouldSucceed(u.email, call[p].password)' <=> u.isVerified
                    /\ \A pw \in Passwords :
                        pw.first72 # call[p].password.first72
                            => ~LoginWouldSucceed(u.email, pw)'
      ]_vars
C9_Witness ==
    \E p \in Procs :
        /\ pc[p] = "rp_del"
        /\ ~BcryptCompare(call[p].password, locOld[p])
        /\ \E u \in FindByEmail(call[p].email) :
            u.isVerified /\ BcryptCompare(call[p].password, u.password)

\* C10: forgotPassword gives the same reply whether or not an account has
\* the email.
C10_ForgotSameAcknowledgement ==
    \A a, b \in acks : a.res = b.res /\ a.res = Return(ForgotMessage)
C10_Witness ==
    \E a, b \in acks : a.existed /\ ~b.existed


\* C11: validateUser fails in one and the same way whether no account has the
\* email or the account exists and the password does not match: null, which
\* the login route answers with the same Unauthorized reply; when it succeeds
\* the account it hands to login has no password field.
C11_ValidateUserOneFailure ==
    [][ Arrives("login") =>
            LET c == Arrived
                match == \E u \in FindByEmail(c.email) : BcryptCompare(c.password, u.password)
            IN IF match
                  THEN /\ GoesOn
                       /\ \A p \in Procs : call'[p] # call[p] =>
                              /\ "password" \notin DOMAIN locUser'[p]
                              /\ locUser'[p].email = c.email
                  ELSE /\ ~GoesOn
                       /\ validateUser(c.email, c.password).user = NoUserView
                       /\ last'.res = LocalStrategyRejects
      ]_vars
\* a wrong password for an existing account was turned away
C11_Witness ==
    /\ last.call.op = "login"
    /\ last.res = LocalStrategyRejects
    /\ FindByEmail(last.call.email) # {}


\* the token presented by the refreshToken call that arrives in this step
Presented == CHOOSE t \in Arrived.token : TRUE

\* C12: refreshToken ends Unauthenticated, and signs nothing, when the
\* presented token has a bad signature or is expired, and when its sub is the
\* id of no row of the user table.
C12_RefreshRejects ==
    [][ Arrives("refreshToken") =>
            ((Presented.sig # "valid" \/ now >= Presented.exp \/ FindById(Presented.sub) = {})
                => /\ IsUnauthenticated(last'.res)
                   /\ TokensOf(last'.res) = {}
                   /\ tokens' = tokens)
      ]_vars
\* a well-signed, unexpired token whose account has been deleted was refused
C12_Witness ==
    /\ last.call.op = "refreshToken"
    /\ IsUnauthenticated(last.res)
    /\ \E t \in last.call.token :
          t.sig = "valid" /\ now < t.exp /\ FindById(t.sub) = {} /\ t \in tokens
\* an expired token of an existing account was refused
C12_WitnessExpired ==
    /\ last.call.op = "refreshToken"
    /\ IsUnauthenticated(last.res)
    /\ \E t \in last.call.token :
          t.sig = "valid" /\ now >= t.exp /\ FindById(t.sub) # {}


\* C13: a refreshToken call that succeeds returns a pair signed in this step
\* whose sub is the sub of the presented token and whose email, role and
\* isVerified are those of the row of that id in the user table.
C13_RefreshClaimsFromStore ==
    [][ (Arrives("refreshToken") /\ last'.res.kind = "return") =>
            /\ last'.res.data # {}
            /\ \E u \in users :
                  /\ u.id = Presented.sub
                  /\ \A t \in TokensOf(last'.res) :
                        /\ t.sub = Presented.sub
                        /\ t.email = u.email
                        /\ t.role = u.role
                        /\ t.isVerified = u.isVerified
                        /\ t.iat = now
      ]_vars
\* a refresh succeeded one second after the token it presents was signed
C13_Witness ==
    /\ last.call.op = "refreshToken"
    /\ last.res.kind = "return"
    /\ \E t \in last.call.token, n \in TokensOf(last.res) : t.iat < n.iat /\ n.sub = t.sub


\* C14: what becomes of a dispatched mail changes nothing but the mail: when a
\* send resolves or rejects, the user table, the stored codes, the calls in
\* flight and the tokens stay as they are and no reply is produced; register
\* and forgotPassword return their acknowledgement while their own send is
\* still pending, with the account in place and the code they wrote stored,
\* whatever became of the sends before.
C14_SendOutcomeIsInvisible ==
    [][ /\ (\E k \in Keys : mail[k] = "pending" /\ mail'[k] \in {"sent", "failed"}) =>
              /\ UNCHANGED <<users, nextId, redis, pc, call, locals, jwts>>
              /\ last' = NoLast
        /\ \A p \in Procs :
              /\ (pc[p] = "reg_set" /\ pc'[p] # pc[p]) =>
                    /\ last'.res = Return(RegisteredMessage)
                    /\ mail'[VerifyKey(call[p].email)] = "pending"
                    /\ users' = users
                    /\ redis'[VerifyKey(call[p].email)] # NoEntry
                    /\ redis'[VerifyKey(call[p].email)] = issued'[VerifyKey(call[p].email)]
              /\ (pc[p] = "fp_set" /\ pc'[p] # pc[p]) =>
                    /\ last'.res = Return(ForgotMessage)
                    /\ mail'[ResetKey(call[p].email)] = "pending"
                    /\ users' = users
                    /\ redis'[ResetKey(call[p].email)] # NoEntry
                    /\ redis'[ResetKey(call[p].email)] = issued'[ResetKey(call[p].email)]
      ]_vars
\* the verification mail failed, the reset mail was delivered, a further
\* forgotPassword was acknowledged, and account and codes are there
C14_Witness ==
    \E e \in Emails :
        /\ mail[VerifyKey(e)] = "failed"
        /\ earlier[ResetKey(e)].val # Nil
        /\ last.call.op = "forgotPassword"
        /\ last.res = Return(ForgotMessage)
        /\ FindByEmail(e) # {}
        /\ redis[VerifyKey(e)] # NoEntry
        /\ redis[ResetKey(e)] # NoEntry


\* the key a verifyEmail or resetPassword call that arrives in this step reads
ArrivedKey == IF Arrived.op = "verifyEmail" THEN VerifyKey(Arrived.email)
              ELSE ResetKey(Arrived.email)
\* a call arrives that presents a code
ArrivesWithCode == Arrives("verifyEmail") \/ Arrives("resetPassword")

\* C15 (as stated): after a redis.set has replaced the code of a key, a
\* verifyEmail or resetPassword call that presents the replaced code is
\* rejected.
C15_EarlierCodeRejected ==
    [][ (ArrivesWithCode /\ earlier[ArrivedKey].val # Nil
                         /\ Arrived.otp = earlier[ArrivedKey].val)
            => ~GoesOn
      ]_vars

\* C15 (amended): a redis.set leaves under its key exactly the code it wrote,
\* whatever was stored there and whichever call arrived first; from then on a
\* call that presents the replaced code is rejected with 'Invalid or expired
\* OTP' unless generateOtp drew the same six digits both times, and a call
\* that goes on presented the latest code.
C15_LastSetWins ==
    [][ /\ \A k \in Keys : issued'[k] # issued[k] =>
              /\ redis'[k] = issued'[k]
              /\ issued'[k].ser > issued[k].ser
              /\ issued'[k].val \in Codes
              /\ earlier'[k].val = issued[k].val
        /\ ArrivesWithCode =>
              /\ (/\ earlier[ArrivedKey].val # Nil
                  /\ Arrived.otp = earlier[ArrivedKey].val
                  /\ earlier[ArrivedKey].val # issued[ArrivedKey].val)
                    => (~GoesOn /\ last'.res = InvalidOrExpiredCode)
              /\ GoesOn => Arrived.otp = issued[ArrivedKey].val
      ]_vars
\* two forgotPassword calls overlapped, the later set replaced a different
\* code, and a resetPassword with the replaced code was rejected
C15_Witness ==
    /\ last.call.op = "resetPassword"
    /\ last.res = InvalidOrExpiredCode
    /\ LET k == ResetKey(last.call.email) IN
          /\ earlier[k].raced
          /\ earlier[k].val = last.call.otp
          /\ earlier[k].val # issued[k].val
          /\ redis[k] = issued[k]


\* C16: a code stored with a time-to-live of T seconds is absent for every
\* read made T+1 seconds or more after the set: verifyEmail and resetPassword
\* presenting it then throw 'Invalid or expired OTP' and change nothing, which
\* is what they do for a key that was never set.
C16_ExpiredCodeIsAbsent ==
    [][ ArrivesWithCode =>
            LET k == ArrivedKey IN
            /\ (ttlCfg # 0 /\ issued[k] # NoEntry /\ now >= issued[k].exp + 1) =>
                  /\ ~GoesOn
                  /\ last'.res = InvalidOrExpiredCode
                  /\ UNCHANGED <<users, redis>>
            /\ issued[k] = NoEntry =>
                  /\ ~GoesOn
                  /\ last'.res = InvalidOrExpiredCode
                  /\ UNCHANGED <<users, redis>>
      ]_vars
\* the very code that was stored, never consumed, presented T+1 seconds after
\* the set, was refused
C16_Witness ==
    /\ last.res = InvalidOrExpiredCode
    /\ last.call.op \in {"verifyEmail", "resetPassword"}
    /\ LET k == IF last.call.op = "verifyEmail" THEN VerifyKey(last.call.email)
                 ELSE ResetKey(last.call.email)
       IN /\ ttlCfg # 0
          /\ redis[k] = issued[k]
          /\ redis[k].val = last.call.otp
          /\ now = redis[k].exp + 1


\* C17: the two writes of a resetPassword that succeeds touch nothing else:
\* the update changes the password field of the rows of that email and no
\* other field, no other row and no stored code; the del removes the
\* reset_password code of that email and leaves every other key, the
\* verify_email code of the same email included, and every row as it was.
C17_ResetPasswordFrame ==
    [][ \A p \in Procs :
          /\ (pc[p] = "rp_update" /\ pc'[p] = "rp_del") =>
                /\ redis' = redis
                /\ UNCHANGED <<nextId, jwts>>
                /\ Cardinality(users') = Cardinality(users)
                /\ \A u \in users :
                      IF u.email = call[p].email
                         THEN \E v \in users' : v = [u EXCEPT !.password = v.password]
                         ELSE u \in users'
          /\ (pc[p] = "rp_del" /\ pc'[p] = "ready") =>
                /\ last'.res = Return(ResetMessage)
                /\ UNCHANGED <<users, nextId, tokens>>
                /\ redis'[ResetKey(call[p].email)] = NoEntry
                /\ \A k \in Keys \ {ResetKey(call[p].email)} : redis'[k] = redis[k]
      ]_vars
\* a resetPassword succeeded for an account whose verification code is still
\* stored, next to the bystander's row and the bystander's own reset code
C17_Witness ==
    /\ last.call.op = "resetPassword"
    /\ last.res = Return(ResetMessage)
    /\ BystanderRow \in users
    /\ redis[ResetKey(Bystander)] # NoEntry
    /\ redis[VerifyKey(last.call.email)] # NoEntry
    /\ redis[ResetKey(last.call.email)] = NoEntry
    /\ \E u \in FindByEmail(last.call.email) :
          u.password = BcryptHash(last.call.password, u.password.salt)


\* C18: resetPassword throws 'Invalid or expired OTP' when no reset code is
\* stored for the email (none set, deleted or expired) and when the stored
\* code differs from the supplied one; the call ends there, and the user table
\* and the stored codes are as before.
C18_ResetRejectsBadCode ==
    [][ Arrives("resetPassword") =>
            LET stored == RedisGet(ResetKey(Arrived.email)) IN
            (stored = Nil \/ stored # Arrived.otp) =>
                /\ ~GoesOn
                /\ last'.res = InvalidOrExpiredCode
                /\ UNCHANGED <<users, redis>>
      ]_vars
\* a resetPassword with the wrong code was refused while the right one is stored
C18_Witness ==
    /\ last.call.op = "resetPassword"
    /\ last.res = InvalidOrExpiredCode
    /\ FindByEmail(last.call.email) # {}
    /\ RedisGet(ResetKey(last.call.email)) \in Codes \ {last.call.otp}


\* what the store holds for a purpose and an email: the entry, and what a get returns
Slot(purpose, email) ==
    IF <<purpose, email>> \in DOMAIN redis THEN redis[<<purpose, email>>] ELSE NoEntry
Stored(purpose, email) ==
    IF <<purpose, email>> \in DOMAIN redis THEN RedisGet(<<purpose, email>>) ELSE Nil

C20_StoreFailureStaysGeneric ==
    last.storeFailed =>
        /\ last.res = InfrastructureFailure
        /\ last.res.type \notin {"BadRequestException", "UnauthorizedException",
                                 "NotFoundException"}


\* the claims a token was signed over
ClaimsOf(t) == [sub |-> t.sub, email |-> t.email, role |-> t.role, isVerified |-> t.isVerified]
\* the account a finished login or refreshToken call was about
GivenAccounts ==
    IF last.call.op = "refreshToken"
       THEN {u \in users : \E t \in last.call.token : u.id = t.sub}
       ELSE FindByEmail(last.call.email)

\* C21: a login that succeeded, directly or through refreshToken, answered
\* with an access token and a refresh token signed now over the same claims
\* {sub, email, role, isVerified} of the given account, the access token
\* expiring after its own lifetime and the refresh token after its own, and
\* with a projection that has the fields id, email, role, firstName and
\* lastName of that account and no other; no password field is in the tokens
\* or in the projection.
C21_LoginAnswer ==
    last.res.type = "tokens" =>
        \A d \in last.res.data :
            /\ DOMAIN d = {"access_token", "refresh_token", "user"}
            /\ \E u \in GivenAccounts :
                  /\ ClaimsOf(d.access_token) =
                        [sub |-> u.id, email |-> u.email, role |-> u.role,
                         isVerified |-> u.isVerified]
                  /\ ClaimsOf(d.refresh_token) = ClaimsOf(d.access_token)
                  /\ d.user = [id |-> u.id, email |-> u.email, role |-> u.role,
                               firstName |-> u.firstName, lastName |-> u.lastName]
            /\ d.access_token.iat = now /\ d.access_token.exp = now + AccessTtl
            /\ d.refresh_token.iat = now /\ d.refresh_token.exp = now + RefreshTtl
            /\ DOMAIN d.user = {"id", "email", "role", "firstName", "lastName"}
            /\ \A t \in {d.access_token, d.refresh_token} :
                  DOMAIN t = {"sub", "email", "role", "isVerified", "iat", "exp", "sig"}
\* a refreshToken call, which hands login the stored row with its password
\* hash, was answered with a token pair
C21_Witness ==
    /\ last.call.op = "refreshToken"
    /\ last.res.type = "tokens"
    /\ \E u \in GivenAccounts : "password" \in DOMAIN u /\ u.password # NoHash


\* C22: a register that succeeds leaves one account for the email, the one
\* its create step added, with isVerified false and role USER, and one
\* verify_email code under that email that expires after the configured
\* number of seconds (never when none is configured), and touches nothing
\* else; the account is in the table before the code is stored, and no
\* verification mail is dispatched before the code is stored.
C22_RegisterLeaves ==
    [][ \A p \in Procs : \A e \in Emails :
          LET k == VerifyKey(e) IN
          /\ (pc[p] = "reg_create" /\ call[p].email = e /\ pc'[p] = "reg_set") =>
                /\ FindByEmail(e) = {}
                /\ \E u \in users' : /\ users' = users \cup {u}
                                      /\ u.email = e /\ u.id = nextId
                /\ redis' = redis /\ redis[k] = NoEntry
                /\ mail' = mail /\ mail[k] = "none"
          /\ (pc[p] = "reg_set" /\ call[p].email = e /\ pc'[p] = "ready"
                  /\ last'.res = Return(RegisteredMessage)) =>
                /\ users' = users
                /\ \E u \in users : /\ FindByEmail(e) = {u}
                                     /\ ~u.isVerified /\ u.role = "USER"
                                     /\ u.verifiedAt = NullDate
                /\ redis[k] = NoEntry
                /\ redis'[k].val \in Codes
                /\ redis'[k].exp = (IF ttlCfg # 0 THEN now + ttlCfg ELSE NoExpiry)
                /\ mail[k] = "none" /\ mail'[k] = "pending"
                /\ \A j \in Keys \ {k} : redis'[j] = redis[j] /\ mail'[j] = mail[j]
                /\ tokens' = tokens
      ]_vars
\* a register has just succeeded: its account is unverified and its code is stored
C22_Witness ==
    /\ last.call.op = "register"
    /\ last.res = Return(RegisteredMessage)
    /\ \E u \in FindByEmail(last.call.email) : ~u.isVerified
    /\ RedisGet(VerifyKey(last.call.email)) \in Codes
    /\ mail[VerifyKey(last.call.email)] = "pending"


\* C23: a forgotPassword for an email without account answers at once and
\* leaves the table, the code store, the mails and the tokens as they were;
\* for an email with an account it goes on to its set, which puts a newly
\* generated code under the reset_password key of the email in place of
\* whatever was there, so that a read right after returns that code,
\* dispatches the mail, and leaves every other key and the table alone.
C23_ForgotPasswordEffect ==
    [][ /\ Arrives("forgotPassword") =>
              /\ GoesOn <=> FindByEmail(Arrived.email) # {}
              /\ ~GoesOn => last'.res = Return(ForgotMessage)
              /\ UNCHANGED <<users, nextId, redis, issued, mail, tokens>>
        /\ \A p \in Procs :
              (pc[p] = "fp_set" /\ pc'[p] = "ready") =>
                  LET k == ResetKey(call[p].email) IN
                  /\ FindByEmail(call[p].email) # {}
                  /\ redis'[k].val \in Codes
                  /\ redis'[k].ser > redis[k].ser
                  /\ \A j \in Keys : redis'[k].ser > issued[j].ser
                  /\ now' = now /\ (redis'[k].exp = NoExpiry \/ now < redis'[k].exp)
                  /\ mail'[k] = "pending"
                  /\ \A j \in Keys \ {k} : redis'[j] = redis[j] /\ mail'[j] = mail[j]
                  /\ UNCHANGED <<users, nextId, tokens>>
      ]_vars
\* a forgotPassword has just replaced a reset code that was still valid
C23_Witness ==
    /\ last.call.op = "forgotPassword"
    /\ last.res = Return(ForgotMessage)
    /\ FindByEmail(last.call.email) # {}
    /\ earlier[ResetKey(last.call.email)].val \in Codes
    /\ RedisGet(ResetKey(last.call.email)) \in Codes
\* a forgotPassword for an email nobody registered was acknowledged
C23_WitnessNoAccount ==
    /\ last.call.op = "forgotPassword"
    /\ last.res = Return(ForgotMessage)
    /\ FindByEmail(last.call.email) = {}


\* C24: a token that refreshToken has accepted before is accepted again by
\* every later refreshToken call made before the token's expiry while the
\* account of its sub exists, and refused otherwise: having been used does
\* not count against it.
C24_RotationDoesNotRevoke ==
    [][ (Arrives("refreshToken") /\ Presented \in DOMAIN accepted) =>
            /\ (last'.res.type = "tokens")
                    <=> (now < Presented.exp /\ FindById(Presented.sub) # {})
            /\ last'.res.type = "tokens" => accepted'[Presented] = accepted[Presented] + 1
      ]_vars
\* refreshToken has just accepted a token for the second time
C24_Witness ==
    /\ last.call.op = "refreshToken"
    /\ last.res.type = "tokens"
    /\ \E t \in last.call.token : t \in DOMAIN accepted /\ accepted[t] >= 2


\* the two flavours differ in nothing but the lifetime they were signed with
IsAccessToken(t) == t.exp - t.iat = AccessTtl
IsRefreshToken(t) == t.exp - t.iat = RefreshTtl

\* C25: refreshToken treats an issued token of either flavour alike: an
\* unexpired access token of an existing account is accepted, and the answer
\* is the pair and projection login gives for the row of its sub, which is
\* also the answer to an unexpired refresh token of that sub.
C25_AccessTokenRefreshes ==
    [][ (Arrives("refreshToken") /\ Presented \in tokens /\ now < Presented.exp
            /\ FindById(Presented.sub) # {}) =>
            /\ IsAccessToken(Presented) \/ IsRefreshToken(Presented)
            /\ \E u \in FindById(Presented.sub) :
                  /\ last'.res = LoginResult(u)
                  /\ tokens' = tokens \cup TokensOf(LoginResult(u))
            /\ \E a, r \in TokensOf(last'.res) : IsAccessToken(a) /\ IsRefreshToken(r)
      ]_vars
\* refreshToken has just answered an access token with a new pair
C25_Witness ==
    /\ last.call.op = "refreshToken"
    /\ last.res.type = "tokens"
    /\ \E t \in last.call.token : t \in tokens /\ IsAccessToken(t)


\* the account of the email is unverified, no verification code can be read
\* for it, and no call that would store one or that has read one is in flight
Stranded(e) ==
    /\ FindByEmail(e) # {}
    /\ \A u \in FindByEmail(e) : ~u.isVerified
    /\ RedisGet(VerifyKey(e)) = Nil
    /\ \A p \in Procs : call[p].email = e => pc[p] \notin {"reg_set", "ver_update", "ver_del"}

\* C26: an unverified account whose verification code has expired or was
\* never stored stays that way whatever is called: no step stores a
\* verify_email code for it or verifies it, a register for its email ends
\* with the duplicate-account error and a verifyEmail with the invalid-code
\* error (or with the store's error when a store call fails).
C26_NoReissue ==
    [][ \A e \in Emails :
          Stranded(e) =>
              /\ Stranded(e)'
              /\ redis'[VerifyKey(e)] = redis[VerifyKey(e)]
              /\ issued'[VerifyKey(e)] = issued[VerifyKey(e)]
              /\ (Arrives("register") /\ Arrived.email = e) =>
                    (last'.res = Conflict \/ last'.storeFailed)
              /\ (Arrives("verifyEmail") /\ Arrived.email = e) =>
                    (last'.res = InvalidOrExpiredCode \/ last'.storeFailed)
      ]_vars
\* a register was refused as duplicate while the account is unverified and its code expired
C26_Witness ==
    /\ last.call.op = "register"
    /\ last.res = Conflict
    /\ Stranded(last.call.email)
    /\ redis[VerifyKey(last.call.email)] # NoEntry
    /\ Expired(redis[VerifyKey(last.call.email)])
\* a verifyEmail was refused for an unverified account whose code was never stored
C26_WitnessNeverStored ==
    /\ last.call.op = "verifyEmail"
    /\ last.res = InvalidOrExpiredCode
    /\ Stranded(last.call.email)
    /\ issued[VerifyKey(last.call.email)] = NoEntry


\* C27: when the redis.set of a register fails, the call ends with the
\* store's error, the account its create added stays in the table, and no
\* verification code is stored and no mail dispatched for the email; an
\* email that has an account keeps having one, and a register for it ends
\* with the duplicate-account error (or with the store's error).
C27_RegisterNotAtomic ==
    [][ /\ \A p \in Procs :
              (pc[p] = "reg_set" /\ pc'[p] = "ready" /\ last'.storeFailed) =>
                  LET k == VerifyKey(call[p].email) IN
                  /\ last'.res = InfrastructureFailure
                  /\ last'.call.op = "register"
                  /\ users' = users
                  /\ \E u \in users : u.email = call[p].email /\ ~u.isVerified
                  /\ redis[k] = NoEntry /\ redis'[k] = NoEntry
                  /\ issued'[k] = NoEntry
                  /\ mail'[k] = "none"
        /\ \A e \in Emails : FindByEmail(e) # {} => FindByEmail(e)' # {}
        /\ (Arrives("register") /\ FindByEmail(Arrived.email) # {}) =>
              (last'.res = Conflict \/ last'.storeFailed)
      ]_vars
\* a register was refused as duplicate for an email whose account has never had a code
C27_Witness ==
    /\ last.call.op = "register"
    /\ last.res = Conflict
    /\ FindByEmail(last.call.email) # {}
    /\ issued[VerifyKey(last.call.email)] = NoEntry
    /\ regStat[last.call.email].ok = 0
    /\ regStat[last.call.email].other > 0


\* C28: a token that was signed before a resetPassword of its email returned
\* is accepted by refreshToken afterwards exactly when it is unexpired and
\* the account of its sub exists, and the answer is a pair signed now; the
\* steps of resetPassword leave the signed tokens, their expiry and the ids
\* they refer to as they were.
C28_ResetKeepsSessions ==
    [][ /\ (Arrives("refreshToken") /\ Presented \in preReset) =>
              /\ (last'.res.type = "tokens")
                      <=> (now < Presented.exp /\ FindById(Presented.sub) # {})
              /\ \A n \in TokensOf(last'.res) : n.iat = now /\ n.sub = Presented.sub
        /\ \A p \in Procs :
              (pc[p] \in {"rp_update", "rp_del"} /\ pc'[p] # pc[p]) =>
                  /\ tokens' = tokens
                  /\ now' = now
                  /\ \A t \in tokens : FindById(t.sub)' # {} <=> FindById(t.sub) # {}
      ]_vars
\* a refresh token signed before a completed resetPassword has just been
\* answered with a new pair, the account's password being the new one
C28_Witness ==
    /\ last.call.op = "refreshToken"
    /\ last.res.type = "tokens"
    /\ \E t \in last.call.token : t \in preReset /\ IsRefreshToken(t)
    /\ \E s \in DOMAIN wins : wins[s] > 0


\* C29: tokens are signed by a login that returns and by a refreshToken
\* that is accepted and by no other step; each token signed carries
\* isVerified true and the id of a row of the user table which, at the
\* instant of signing, is verified, was verified no later than that
\* instant, and has the email of the token; no signed token is withdrawn.
C29_TokensOnlyForVerified ==
    [][ /\ tokens \subseteq tokens'
        /\ tokens' # tokens =>
              \/ \E p \in Procs : pc[p] = "login" /\ pc'[p] = "ready"
                                   /\ last'.call.op = "login"
              \/ Arrives("refreshToken") /\ ~GoesOn
        /\ \A t \in tokens' \ tokens :
              /\ t.isVerified = TRUE
              /\ t.iat = now
              /\ \E u \in users :
                    /\ u.id = t.sub /\ u.email = t.email
                    /\ u.isVerified
                    /\ u.verifiedAt # NullDate /\ u.verifiedAt <= t.iat
      ]_vars
\* tokens have been signed by a login and by a refreshToken of an account
\* that was verified before
C29_Witness ==
    /\ last.call.op = "refreshToken"
    /\ last.res.type = "tokens"
    /\ \E t \in tokens, u \in users : u.id = t.sub /\ u.isVerified /\ u.verifiedAt < t.iat


\* the key holds a code that was stored without expiry
Unexpiring(k) == redis[k] # NoEntry /\ redis[k].exp = NoExpiry

\* C30: with no usable OTP_EXPIRY_SECONDS (Number gives 0 or NaN) every code
\* that forgotPassword stores has no expiry, as has every code register
\* stored; such a code is what a read returns at any later second, a
\* verifyEmail or resetPassword presenting it goes on whatever the time, and
\* it leaves the store only through the delete of the call that consumed it
\* or the set of a call that overwrites it, never through time passing.
C30_NoTtlNoExpiry ==
    [][ /\ ttlCfg = 0 =>
              \A k \in Keys : redis'[k] # NoEntry => redis'[k].exp = NoExpiry
        /\ \A k \in Keys :
              Unexpiring(k) =>
                  /\ RedisGet(k) = redis[k].val
                  /\ redis'[k] # redis[k] =>
                        \E p \in Procs :
                            /\ pc'[p] = "ready"
                            /\ \/ pc[p] = "ver_del" /\ k = VerifyKey(call[p].email)
                                                     /\ redis'[k] = NoEntry
                               \/ pc[p] = "rp_del" /\ k = ResetKey(call[p].email)
                                                    /\ redis'[k] = NoEntry
                               \/ pc[p] = "fp_set" /\ k = ResetKey(call[p].email)
                                                    /\ redis'[k].ser > redis[k].ser
                               \/ pc[p] = "reg_set" /\ k = VerifyKey(call[p].email)
                                                     /\ redis'[k].ser > redis[k].ser
        /\ (Arrives("verifyEmail") /\ Unexpiring(VerifyKey(Arrived.email))
                /\ redis[VerifyKey(Arrived.email)].val = Arrived.otp) => GoesOn
        /\ (Arrives("resetPassword") /\ Unexpiring(ResetKey(Arrived.email))
                /\ redis[ResetKey(Arrived.email)].val = Arrived.otp) => GoesOn
      ]_vars
\* the code register stored at second 0 without expiry was accepted by a
\* verifyEmail after as many seconds as the horizon allows
C30_Witness ==
    /\ ttlCfg = 0
    /\ now = MaxCodeTime
    /\ last.call.op = "verifyEmail"
    /\ last.res = Return(VerifiedMessage)
    /\ issued[VerifyKey(last.call.email)].ser = 1
    /\ \E u \in FindByEmail(last.call.email) : u.verifiedAt = MaxCodeTime
\* the code forgotPassword stored at second 0 without expiry is still the
\* one a read returns at the end of the horizon
C30_WitnessReset ==
    /\ ttlCfg = 0
    /\ now = MaxCodeTime
    /\ \E e \in Emails : Unexpiring(ResetKey(e)) /\ redis[ResetKey(e)].ser = 2
                           /\ RedisGet(ResetKey(e)) \in Codes

====
